---- MODULE Spec2Model ----
(***************************************************************************)
(* FlashLearn: the study-session queue of StudyModeScreen (React function  *)
(* component) together with the part of App that mounts it, receives its   *)
(* onComplete callback and unmounts it.                                    *)
(*                                                                         *)
(* One action is one browser event (a click, a timer callback, the         *)
(* settling of an awaited promise) together with the React render and the  *)
(* effects that the event's state updates cause.  Handlers read the state  *)
(* of the render they were created in (unprimed variables); a functional   *)
(* update setX(prev => ...) is applied to the queued value.                *)
(*                                                                         *)
(* The module also covers the stores behind the app: the Supabase tables   *)
(* decks, cards and user_progress written by utils/supabase/operations.ts, *)
(* and the key-value record user_progress:<userId> written by the server   *)
(* route /progress/study-session.  Spec is the study session with the      *)
(* persistence of its result; SpecStreak is the streak bookkeeping of the  *)
(* two implementations; SpecStats is the deck counters and the totals      *)
(* derived from them.                                                      *)
(***************************************************************************)
EXTENDS Integers, Sequences, FiniteSets, Bags, TLC

VARIABLES
    screen,          \* App state.currentScreen, restricted to "deck-view" / "study-mode"
    cards,           \* selectedDeck.cards, the cards prop of StudyModeScreen
    updating,        \* bag of card lists: handleCompleteStudy calls awaiting the database calls of handleUpdateDeck
    navigating,      \* number of handleCompleteStudy calls awaiting syncUserProgress
    currentIndex,    \* useState(0)
    isFlipped,       \* useState(false)
    studyCards,      \* useState<Flashcard[]>([])
    reviewQueue,     \* useState<Flashcard[]>([])
    completedCards,  \* useState<Flashcard[]>([])
    autoFlipTimer,   \* useState<NodeJS.Timeout | null>(null)
    cleanupTimer,    \* autoFlipTimer as captured by the cleanup closure of the active auto-flip effect
    timers,          \* pending setTimeout callbacks of the mounted screen
    stray,           \* a setTimeout callback of the screen unmounted last is pending (followed until a screen is mounted again)
    knownSince,      \* history: ids handleKnown was called on since the last (re)start
    owed,            \* history: ids deferred by handleReview and not shown as current card since
    onlyKnown,       \* history: no handleReview / handleRestart / prop change since mount
    sessionEmits,    \* history: the mounted screen has called onComplete
    propsChanged,    \* history: the cards prop was replaced since mount
    lastEvent,       \* history: the last event, for the events the properties are about
    decksTable,      \* table decks of the signed-in user: deck id -> [card_count, mastered_count]
    cardsTable,      \* table cards: deck id -> the deck's rows in created_at order
    userProgress,    \* the user's row of table user_progress, Absent when there is none
    kvProgress,      \* the server's kv record user_progress:<userId>, Absent when there is none
    streakCase,      \* history: who made the last streak update and how its instant lay to last_study_date
    syncRuns,        \* history: runs of syncUserProgress since the last other write to the tables, counted up to 2
    calls,           \* the handleUpdateDeck calls made from DeckViewScreen: call -> position, argument, values awaited
    syncStatus       \* App state.syncStatus as these calls set it (the study session does not read it)

sessionVars == << screen, cards, updating, navigating, currentIndex, isFlipped,
                  studyCards, reviewQueue, completedCards, autoFlipTimer,
                  cleanupTimer, timers, stray, knownSince, owed, onlyKnown,
                  sessionEmits, propsChanged, lastEvent >>

deckVars == << decksTable, cardsTable >>

streakVars == << kvProgress, streakCase >>

updateVars == << calls, syncStatus >>

storeVars == << deckVars, userProgress, streakVars, syncRuns, updateVars >>

vars == << sessionVars, storeVars >>

\* ---------------------------------------------------------------- bounds
MaxCards == 3
MaxInFlight == 1
MaxDays == 3             \* calendar days on which a study update can fall
MaxMasteredCards == 2    \* cap of user_progress.mastered_cards under updateStudyProgress
MaxDecks == 2            \* decks of the user
MaxDeckCards == 1        \* cards of a deck where several decks are stored
MaxCalls == 2            \* handleUpdateDeck calls made from DeckViewScreen

\* ---------------------------------------------------------------- data
Null == 0
CardIds == 1..MaxCards
Flashcard == [id : CardIds, mastered : BOOLEAN]

\* Card lists of up to max cards: distinct ids (database primary keys), any
\* mastered flags.
CardLists(max) ==
    UNION { { d \in [1..n -> Flashcard] : \A i \in 1..n : d[i].id = i } : n \in 0..max }

\* The cards of the deck that is studied.
Decks == CardLists(MaxCards)

\* The cards of a deck that is created or updated in the store.
StoredDecks == CardLists(MaxDeckCards)

Ids(s) == { s[i].id : i \in 1..Len(s) }

IsNotMastered(c) == ~c.mastered
IsMastered(c) == c.mastered

\* Variants of CardsToStudy: no filter; the filter predicate inverted.
CardsToStudyAll(cs) == cs
CardsToStudyInverted(cs) == SelectSeq(cs, IsMastered)

\* cards.filter(card => !card.mastered)
CardsToStudy(cs) == SelectSeq(cs, IsNotMastered)

\* cards.filter(card => card.mastered)
CardsMastered(cs) == SelectSeq(cs, IsMastered)

\* const currentCard = studyCards[currentIndex]  (undefined when out of range)
HasCurrentCard == currentIndex < Len(studyCards)
CurrentCard == studyCards[currentIndex + 1]

\* { ...currentCard, mastered: true }
UpdatedCard == [CurrentCard EXCEPT !.mastered = TRUE]

\* Variant of FindCompleted: the completed copy is never looked up.
FindCompletedNever(card) == card

\* completedCards.find(c => c.id === card.id) || card
FindCompleted(card) ==
    IF \E i \in 1..Len(completedCards) : completedCards[i].id = card.id
    THEN completedCards[CHOOSE i \in 1..Len(completedCards) :
                            /\ completedCards[i].id = card.id
                            /\ \A j \in 1..(i - 1) : completedCards[j].id # card.id]
    ELSE card

\* Variant of AllUpdatedCardsKnown: the card being marked is taken from the
\* render's completedCards like the others.
AllUpdatedCardsKnownStale ==
    [i \in 1..Len(cards) |-> FindCompleted(cards[i])]

\* allUpdatedCards of handleKnown
AllUpdatedCardsKnown ==
    [i \in 1..Len(cards) |->
        IF cards[i].id = CurrentCard.id THEN UpdatedCard ELSE FindCompleted(cards[i])]

\* allUpdatedCards of nextCard
AllUpdatedCardsNext ==
    [i \in 1..Len(cards) |-> FindCompleted(cards[i])]

\* ---------------------------------------------------------------- timers
\* Variant of ClearTimeout: the timer stays pending.
ClearTimeoutKeeps(tm, id) == tm

\* clearTimeout(id)
ClearTimeout(tm, id) == { x \in tm : x.id # id }

\* setTimeout returns an id that no live reference holds.
NewTimerId(tm, held) ==
    CHOOSE n \in 1..(Cardinality(tm) + Cardinality(held) + 1) :
        /\ n \notin held
        /\ \A x \in tm : x.id # n

Mounted == screen = "study-mode"

\* ---------------------------------------------------------------- dates
\* Instants are milliseconds since the epoch.  Each day has its first and its
\* last millisecond as study instants.
MsPerDay == 86400000
Days == 1..MaxDays
Instants == { d * MsPerDay + o : d \in Days, o \in {0, MsPerDay - 1} }

\* Variant of ToDateString: the instant itself stands for its day.
ToDateStringInstant(t) == t

\* new Date(t).toDateString(): the calendar day of an instant (days of 24
\* hours, no change of UTC offset).
ToDateString(t) == t \div MsPerDay

\* new Date(Date.now() - 86400000).toDateString()
Yesterday(now) == ToDateString(now - MsPerDay)

\* ---------------------------------------------------------------- user_progress
\* The result of reading a row or a key that does not exist.
Absent == [absent |-> TRUE]

\* Column defaults of table user_progress; also the record the server uses
\* when the key is absent, and the row getUserProgress inserts.
ProgressDefaults ==
    [total_cards |-> 0, mastered_cards |-> 0, current_streak |-> 0,
     longest_streak |-> 0, last_study_date |-> Null]

\* Variant of Upsert: the payload is added to the stored columns.
UpsertAdding(row, payload) ==
    [f \in DOMAIN ProgressDefaults |->
        IF f \in DOMAIN payload
        THEN payload[f] + (IF row = Absent THEN ProgressDefaults[f] ELSE row[f])
        ELSE IF row = Absent THEN ProgressDefaults[f] ELSE row[f]]

\* Variant of Upsert: the row is replaced, the columns outside the payload
\* get their defaults.
UpsertReplacing(row, payload) ==
    [f \in DOMAIN ProgressDefaults |->
        IF f \in DOMAIN payload THEN payload[f] ELSE ProgressDefaults[f]]

\* upsert on the primary key user_id: the columns of the payload are written,
\* the others keep their values (their defaults when the row is inserted).
Upsert(row, payload) ==
    [f \in DOMAIN ProgressDefaults |->
        IF f \in DOMAIN payload THEN payload[f]
        ELSE IF row = Absent THEN ProgressDefaults[f] ELSE row[f]]

\* updateStudyProgress, lines 421-452: the payload of the upsert, from the
\* row read (Absent when there is none), the instant and the argument.
UpdateStudyProgressPayload(currentProgress, now, masteredCount) ==
    LET hasLast == currentProgress # Absent /\ currentProgress.last_study_date # Null
        lastStudyDate == ToDateString(currentProgress.last_study_date)
        todayDate == ToDateString(now)
        sameDay == hasLast /\ lastStudyDate = todayDate
        yesterday == hasLast /\ ~sameDay /\ lastStudyDate = Yesterday(now)
        newStreak == IF sameDay THEN currentProgress.current_streak
                     ELSE IF yesterday THEN currentProgress.current_streak + 1
                     ELSE 1
        longest == IF currentProgress # Absent THEN currentProgress.longest_streak ELSE 0
        longestStreak == IF yesterday /\ newStreak > longest THEN newStreak ELSE longest
    IN  [mastered_cards |-> (IF currentProgress # Absent
                             THEN currentProgress.mastered_cards ELSE 0) + masteredCount,
         current_streak |-> newStreak,
         longest_streak |-> longestStreak,
         last_study_date |-> now]

\* Variant of StudySessionRecord: a last_study_date after today is taken
\* for a study of the same day.
StudySessionRecordLenient(stored, now) ==
    LET progress == IF stored # Absent THEN stored ELSE ProgressDefaults
        today == ToDateString(now)
        lastStudyDate == IF progress.last_study_date # Null
                         THEN ToDateString(progress.last_study_date) ELSE Null
        streak == IF lastStudyDate # Null /\ lastStudyDate >= today
                  THEN progress.current_streak
                  ELSE IF lastStudyDate # Null /\ lastStudyDate = Yesterday(now)
                  THEN progress.current_streak + 1
                  ELSE 1
    IN  [progress EXCEPT
            !.current_streak = streak,
            !.longest_streak = IF streak > @ THEN streak ELSE @,
            !.last_study_date = now]

\* POST /progress/study-session, lines 497-525: the record written back,
\* from the record read (Absent when the key is absent) and the instant.
\* lastStudyDate is null or a day string, today and yesterday are day
\* strings: null equals neither.
StudySessionRecord(stored, now) ==
    LET progress == IF stored # Absent THEN stored ELSE ProgressDefaults
        today == ToDateString(now)
        lastStudyDate == IF progress.last_study_date # Null
                         THEN ToDateString(progress.last_study_date) ELSE Null
        streak == IF lastStudyDate # Null /\ lastStudyDate = today
                  THEN progress.current_streak
                  ELSE IF lastStudyDate # Null /\ lastStudyDate = Yesterday(now)
                  THEN progress.current_streak + 1
                  ELSE 1
    IN  [progress EXCEPT
            !.current_streak = streak,
            !.longest_streak = IF streak > @ THEN streak ELSE @,
            !.last_study_date = now]

\* The calendar day an instant falls on.
DayOf(t) == CHOOSE d \in 0..(MaxDays + 1) : d * MsPerDay <= t /\ t < (d + 1) * MsPerDay

\* How the study instant lies to the stored last_study_date.
StreakCaseOf(stored, now) ==
    IF stored = Absent \/ stored.last_study_date = Null THEN "first"
    ELSE LET last == DayOf(stored.last_study_date)
             today == DayOf(now)
         IN  IF last = today THEN "same"
             ELSE IF last + 1 = today THEN "next"
             ELSE IF last < today THEN "gap"
             ELSE "backdated"

\* ---------------------------------------------------------------- decks and cards
DeckIds == 1..MaxDecks

\* state.selectedDeckId of the study session.
SelectedDeck == 1

\* Variant of CardCount: only the cards still to be studied are counted.
CardCountToStudy(cs) == Len(CardsToStudy(cs))

\* const cardCount = updatedDeck.cards.length
CardCount(cs) == Len(cs)

\* const masteredCount = updatedDeck.cards.filter(card => card.mastered).length
MasteredCount(cs) == Len(CardsMastered(cs))

\* addCards: the rows inserted for a card list.  A row keeps front and back
\* (a card's text is identified with its id); its id is new and its
\* mastered column is false.
AddCardsRows(cs) == [i \in 1..Len(cs) |-> [front |-> cs[i].id, mastered |-> FALSE]]

\* getDeck and the mapping of handleOpenDeck: the cards of the deck as the
\* screens get them.
OpenedCards(rows) == [i \in 1..Len(rows) |-> [id |-> i, mastered |-> rows[i].mastered]]

\* decks.reduce((sum, d) => sum + (d[col] || 0), 0)
RECURSIVE SumColumn(_, _)
SumColumn(decks, col) ==
    IF DOMAIN decks = {} THEN 0
    ELSE LET d == CHOOSE x \in DOMAIN decks : TRUE
         IN  decks[d][col] + SumColumn([x \in DOMAIN decks \ {d} |-> decks[x]], col)

\* Variant of SyncUserProgressPayload: both totals are the card total.
SyncUserProgressPayloadCards(decks) ==
    [total_cards |-> SumColumn(decks, "card_count"),
     mastered_cards |-> SumColumn(decks, "card_count")]

\* syncUserProgress, lines 477-486: the payload of the upsert, from the deck
\* rows read.
SyncUserProgressPayload(decks) ==
    [total_cards |-> SumColumn(decks, "card_count"),
     mastered_cards |-> SumColumn(decks, "mastered_count")]

\* The database calls of handleUpdateDeck for deck d and card list e, all
\* successful: updateDeck (title and description), replaceCards when the
\* list is not empty, updateDeckStats.
PersistDeck(d, e) ==
    /\ d \in DOMAIN decksTable
    /\ cardsTable' = [cardsTable EXCEPT ![d] = IF Len(e) > 0 THEN AddCardsRows(e) ELSE @]
    /\ decksTable' = [decksTable EXCEPT ![d] = [card_count |-> CardCount(e),
                                                 mastered_count |-> MasteredCount(e)]]

\* syncUserProgress with its two database calls successful.
SyncUserProgress ==
    /\ userProgress' = Upsert(userProgress, SyncUserProgressPayload(decksTable))
    /\ syncRuns' = IF syncRuns = 0 THEN 1 ELSE 2
    /\ UNCHANGED << sessionVars, deckVars, streakVars, updateVars >>

\* handleCreateDeck -> createDeck, its two inserts successful: the deck row
\* with card_count and mastered_count 0, then the card rows.
\* syncUserProgress is not called.
HandleCreateDeck ==
    \E d \in DeckIds \ DOMAIN decksTable, cs \in StoredDecks :
        /\ decksTable' = [x \in DOMAIN decksTable \cup {d} |->
                             IF x = d THEN [card_count |-> Len(cs), mastered_count |-> 0]
                             ELSE decksTable[x]]
        /\ cardsTable' = [x \in DOMAIN cardsTable \cup {d} |->
                             IF x = d THEN AddCardsRows(cs) ELSE cardsTable[x]]
        /\ syncRuns' = 0
        /\ UNCHANGED << sessionVars, userProgress, streakVars, updateVars >>

\* handleUpdateDeck for a deck of the user and the card list of the edit
\* form or of a completed session, up to the await of syncUserProgress.
UpdateDeckInStore ==
    \E d \in DOMAIN decksTable, e \in StoredDecks :
        /\ PersistDeck(d, e)
        /\ syncRuns' = 0
        /\ UNCHANGED << sessionVars, userProgress, streakVars, updateVars >>

\* handleDeleteDeck -> deleteDeck: the deck row goes, its card rows with it
\* (ON DELETE CASCADE), up to the await of syncUserProgress.
HandleDeleteDeck ==
    \E d \in DOMAIN decksTable :
        /\ decksTable' = [x \in DOMAIN decksTable \ {d} |-> decksTable[x]]
        /\ cardsTable' = [x \in DOMAIN cardsTable \ {d} |-> cardsTable[x]]
        /\ syncRuns' = 0
        /\ UNCHANGED << sessionVars, userProgress, streakVars, updateVars >>

\* ---------------------------------------------------------------- streak updates
\* operations.ts updateStudyProgress(masteredCount) at the instant now: the
\* row is read, the payload computed and upserted.
UpdateStudyProgressAt(now, masteredCount) ==
    LET payload == UpdateStudyProgressPayload(userProgress, now, masteredCount)
    IN  /\ payload.mastered_cards <= MaxMasteredCards
        /\ userProgress' = Upsert(userProgress, payload)
        /\ streakCase' = [by |-> "client", case |-> StreakCaseOf(userProgress, now)]
        /\ syncRuns' = 0
        /\ UNCHANGED << sessionVars, deckVars, kvProgress, updateVars >>

UpdateStudyProgress ==
    \E now \in Instants, masteredCount \in {0, 1} :
        UpdateStudyProgressAt(now, masteredCount)

\* The server route POST /progress/study-session at the instant now.
PostStudySessionAt(now) ==
    /\ kvProgress' = StudySessionRecord(kvProgress, now)
    /\ streakCase' = [by |-> "server", case |-> StreakCaseOf(kvProgress, now)]
    /\ UNCHANGED << sessionVars, deckVars, userProgress, syncRuns, updateVars >>

PostStudySession == \E now \in Instants : PostStudySessionAt(now)

\* updateStudyProgress(1) at the first instant: a study update as the deck
\* counters and totals see it.
StudyOnFirstDay ==
    \E now \in Instants :
        /\ \A t \in Instants : now <= t
        /\ UpdateStudyProgressAt(now, 1)

\* operations.ts getUserProgress when the user has no row: the row is
\* inserted with zeros.
GetUserProgress ==
    /\ userProgress = Absent
    /\ userProgress' = ProgressDefaults
    /\ UNCHANGED << sessionVars, deckVars, streakVars, syncRuns, updateVars >>

\* ---------------------------------------------------------------- handleUpdateDeck, await by await
\* DeckViewScreen calls onUpdateDeck for an added, edited or deleted card and
\* for Reset Progress; nothing keeps the user from a second action while the
\* first call is awaiting.  Each call runs once; every await is a step.
Calls == 1..MaxCalls

NoCounters == [card_count |-> 0, mastered_count |-> 0]

NoTotals == [total_cards |-> 0, mastered_cards |-> 0]

\* pc: the database call awaited; cards: updatedDeck.cards; payload: the
\* totals syncUserProgress computed from the deck rows it read.  History:
\* errors (a database call of this call answered with an error), rowsBefore
\* and countersBefore (the stored deck when the call started).
IdleCall ==
    [pc |-> "idle", cards |-> << >>, payload |-> NoTotals, errors |-> FALSE,
     rowsBefore |-> << >>, countersBefore |-> NoCounters]

\* handleUpdateDeck(updatedDeck), lines 1303-1310: syncStatus "syncing",
\* then updateDeck is awaited.
StartUpdateDeck ==
    \E c \in Calls, e \in StoredDecks :
        /\ calls[c].pc = "idle"
        /\ SelectedDeck \in DOMAIN decksTable
        /\ calls' = [calls EXCEPT ![c] =
                        [@ EXCEPT !.pc = "updateDeck",
                                  !.cards = e,
                                  !.rowsBefore = cardsTable[SelectedDeck],
                                  !.countersBefore = decksTable[SelectedDeck]]]
        /\ syncStatus' = "syncing"
        /\ UNCHANGED << sessionVars, deckVars, userProgress, streakVars, syncRuns >>

\* updateDeck has written title and description; lines 1313-1320: with
\* cards, replaceCards starts and awaits its delete; without, the next
\* call is updateDeckStats.
UpdateDeckDone ==
    \E c \in Calls :
        /\ calls[c].pc = "updateDeck"
        /\ calls' = [calls EXCEPT ![c].pc = IF Len(calls[c].cards) > 0
                                            THEN "deleteCards" ELSE "updateDeckStats"]
        /\ UNCHANGED << sessionVars, deckVars, userProgress, streakVars, syncRuns,
                        syncStatus >>

\* replaceCards, line 540: the delete has removed the deck's rows; addCards
\* is called.
DeleteCardsDone ==
    \E c \in Calls :
        /\ calls[c].pc = "deleteCards"
        /\ cardsTable' = [cardsTable EXCEPT ![SelectedDeck] = << >>]
        /\ calls' = [calls EXCEPT ![c].pc = "addCards"]
        /\ syncRuns' = 0
        /\ UNCHANGED << sessionVars, decksTable, userProgress, streakVars, syncStatus >>

\* replaceCards, line 540: the delete answers with an error; the result is
\* not looked at and addCards is called.
DeleteCardsError ==
    \E c \in Calls :
        /\ calls[c].pc = "deleteCards"
        /\ calls' = [calls EXCEPT ![c].pc = "addCards", ![c].errors = TRUE]
        /\ UNCHANGED << sessionVars, deckVars, userProgress, streakVars, syncRuns,
                        syncStatus >>

\* addCards: the insert has added the rows; updateDeckStats is awaited.
AddCardsDone ==
    \E c \in Calls :
        /\ calls[c].pc = "addCards"
        /\ cardsTable' = [cardsTable EXCEPT ![SelectedDeck] = @ \o AddCardsRows(calls[c].cards)]
        /\ calls' = [calls EXCEPT ![c].pc = "updateDeckStats"]
        /\ syncRuns' = 0
        /\ UNCHANGED << sessionVars, decksTable, userProgress, streakVars, syncStatus >>

\* updateDeckStats has written the counters; lines 1327-1346: the deck is
\* replaced in state.decks, syncStatus "success", and syncUserProgress starts
\* and awaits its select.
UpdateDeckStatsDone ==
    \E c \in Calls :
        /\ calls[c].pc = "updateDeckStats"
        /\ decksTable' = [decksTable EXCEPT ![SelectedDeck] =
                              [card_count |-> CardCount(calls[c].cards),
                               mastered_count |-> MasteredCount(calls[c].cards)]]
        /\ cards' = calls[c].cards
        /\ syncStatus' = "success"
        /\ calls' = [calls EXCEPT ![c].pc = "syncSelect"]
        /\ syncRuns' = 0
        /\ UNCHANGED << screen, updating, navigating, currentIndex, isFlipped,
                        studyCards, reviewQueue, completedCards, autoFlipTimer,
                        cleanupTimer, timers, stray, knownSince, owed, onlyKnown,
                        sessionEmits, propsChanged, lastEvent >>
        /\ UNCHANGED << cardsTable, userProgress, streakVars >>

\* syncUserProgress, lines 473-478: the deck rows are read and summed; the
\* upsert is awaited.
SyncSelectDone ==
    \E c \in Calls :
        /\ calls[c].pc = "syncSelect"
        /\ calls' = [calls EXCEPT ![c].pc = "syncUpsert",
                                  ![c].payload = SyncUserProgressPayload(decksTable)]
        /\ UNCHANGED << sessionVars, deckVars, userProgress, streakVars, syncRuns,
                        syncStatus >>

\* syncUserProgress, lines 480-489: the upsert has written the totals;
\* handleUpdateDeck returns.
SyncUpsertDone ==
    \E c \in Calls :
        /\ calls[c].pc = "syncUpsert"
        /\ userProgress' = Upsert(userProgress, calls[c].payload)
        /\ calls' = [calls EXCEPT ![c].pc = "done"]
        /\ syncRuns' = IF syncRuns = 0 THEN 1 ELSE 2
        /\ UNCHANGED << sessionVars, deckVars, streakVars, syncStatus >>

\* A database call whose error is thrown (updateDeck, the insert of addCards,
\* updateDeckStats, the upsert of syncUserProgress) answers with an error and
\* has written nothing; the catch block of handleUpdateDeck, lines 1347-1350.
UpdateDeckThrows ==
    \E c \in Calls :
        /\ calls[c].pc \in {"updateDeck", "addCards", "updateDeckStats", "syncUpsert"}
        /\ calls' = [calls EXCEPT ![c].pc = "failed", ![c].errors = TRUE]
        /\ syncStatus' = "error"
        /\ UNCHANGED << sessionVars, deckVars, userProgress, streakVars, syncRuns >>

\* The effect on state.syncStatus, lines 1066-1074: the timer set when the
\* status became "success" fires while it still is.
HideSyncIndicator ==
    /\ syncStatus = "success"
    /\ syncStatus' = "idle"
    /\ UNCHANGED << sessionVars, deckVars, userProgress, streakVars, syncRuns, calls >>

\* ---------------------------------------------------------------- rendering
\* The render that follows an event, with the state the event's updates
\* produce (ci, fl, sc, rq, cc: the five queue states; t: autoFlipTimer;
\* tm: the pending timers).  The auto-flip effect has the dependency list
\* [currentIndex, isFlipped]: when neither changed, the effect of the earlier
\* render, with its cleanup closure, stays in place.  When one changed, React
\* runs the cleanup of the earlier effect (which clears the timer that
\* closure captured), then the effect body with this render's values.
Render(ci, fl, sc, rq, cc, t, tm) ==
    /\ currentIndex' = ci
    /\ isFlipped' = fl
    /\ studyCards' = sc
    /\ reviewQueue' = rq
    /\ completedCards' = cc
    /\ IF ci = currentIndex /\ fl = isFlipped
       THEN /\ autoFlipTimer' = t
            /\ timers' = tm
            /\ cleanupTimer' = cleanupTimer
       ELSE LET afterCleanup == IF cleanupTimer # Null
                                THEN ClearTimeout(tm, cleanupTimer) ELSE tm
                cleared == IF t # Null THEN ClearTimeout(afterCleanup, t) ELSE afterCleanup
                arm == ci < Len(sc) /\ ~fl
                timer == NewTimerId(cleared, {Null, t, cleanupTimer})
            IN  /\ autoFlipTimer' = IF arm THEN timer ELSE Null
                /\ timers' = IF arm
                             THEN cleared \cup {[id |-> timer, card |-> sc[ci + 1].id]}
                             ELSE cleared
                /\ cleanupTimer' = t

\* The screen is removed from the tree: React runs the cleanup of the active
\* auto-flip effect; whatever timer is still pending afterwards outlives the
\* screen.  The component state is discarded.
Unmount ==
    LET afterCleanup == IF cleanupTimer # Null
                        THEN ClearTimeout(timers, cleanupTimer) ELSE timers
    IN  /\ stray' = (stray \/ afterCleanup # {})
        /\ timers' = {}
        /\ currentIndex' = 0
        /\ isFlipped' = FALSE
        /\ studyCards' = << >>
        /\ reviewQueue' = << >>
        /\ completedCards' = << >>
        /\ autoFlipTimer' = Null
        /\ cleanupTimer' = Null
        /\ knownSince' = {}
        /\ owed' = {}
        /\ onlyKnown' = TRUE
        /\ sessionEmits' = FALSE
        /\ propsChanged' = FALSE

\* The id of the card shown after the event, removed from the cards owed a
\* second showing.
Shown(ci, sc) == IF ci < Len(sc) THEN {sc[ci + 1].id} ELSE {}

\* onComplete(allUpdatedCards): App.handleCompleteStudy starts and runs up to
\* the first await inside handleUpdateDeck.
OnComplete(allUpdatedCards) ==
    /\ BagCardinality(updating) + navigating < MaxInFlight
    /\ updating' = updating (+) SetToBag({allUpdatedCards})
    /\ sessionEmits' = TRUE

NoComplete ==
    /\ updating' = updating
    /\ sessionEmits' = sessionEmits

\* ---------------------------------------------------------------- App
\* DeckViewScreen "Study Now" (disabled for a deck without cards) ->
\* handleStartStudy -> StudyModeScreen mounts.  The first render has the
\* useState initial values, so its auto-flip effect sees no current card and
\* arms nothing; the init effect then sets studyCards and completedCards, and
\* the render that follows leaves [currentIndex, isFlipped] unchanged.
\* A callback left behind by an earlier screen calls setIsFlipped of a
\* component that is gone, which changes nothing: from the new mount on it
\* is not followed any longer.
HandleStartStudy ==
    /\ screen = "deck-view"
    /\ Len(cards) > 0
    /\ screen' = "study-mode"
    /\ currentIndex' = 0
    /\ isFlipped' = FALSE
    /\ studyCards' = CardsToStudy(cards)
    /\ completedCards' = CardsMastered(cards)
    /\ reviewQueue' = << >>
    /\ autoFlipTimer' = Null
    /\ cleanupTimer' = Null
    /\ timers' = {}
    /\ knownSince' = {}
    /\ owed' = {}
    /\ onlyKnown' = TRUE
    /\ sessionEmits' = FALSE
    /\ propsChanged' = FALSE
    /\ lastEvent' = "start"
    /\ stray' = FALSE
    /\ UNCHANGED << cards, updating, navigating >>
    /\ UNCHANGED storeVars

\* currentScreen := "deck-view"; a mounted StudyModeScreen is unmounted.
ToDeckView ==
    /\ screen' = "deck-view"
    /\ lastEvent' = "other"
    /\ IF Mounted
       THEN Unmount
       ELSE UNCHANGED << currentIndex, isFlipped, studyCards, reviewQueue,
                         completedCards, autoFlipTimer, cleanupTimer, timers,
                         stray, knownSince, owed, onlyKnown, sessionEmits,
                         propsChanged >>

\* Variant of OnBack: the cards marked known so far are saved when the
\* session is left.
OnBackSaving ==
    /\ Mounted
    /\ screen' = "deck-view"
    /\ Unmount
    /\ lastEvent' = IF ~sessionEmits /\ knownSince # {} /\ Len(reviewQueue) > 0
                    THEN "back" ELSE "other"
    /\ PersistDeck(SelectedDeck, AllUpdatedCardsNext)
    /\ cards' = AllUpdatedCardsNext
    /\ UNCHANGED << updating, navigating, userProgress, streakVars, syncRuns, updateVars >>

\* onBack of StudyModeScreen: setState currentScreen := "deck-view" and
\* nothing else.
OnBack ==
    /\ Mounted
    /\ screen' = "deck-view"
    /\ Unmount
    /\ lastEvent' = IF ~sessionEmits /\ knownSince # {} /\ Len(reviewQueue) > 0
                    THEN "back" ELSE "other"
    /\ UNCHANGED << cards, updating, navigating >>
    /\ UNCHANGED storeVars

\* handleUpdateDeck inside handleCompleteStudy: the awaited database calls
\* have succeeded.  setState replaces the deck, so a mounted StudyModeScreen
\* gets a new cards array and its init effect runs again (studyCards and
\* completedCards only); then syncUserProgress is awaited.  The app does
\* not read the store during a session, so the upsert of syncUserProgress
\* is placed in the step that starts it.
HandleUpdateDeck ==
    \E e \in BagToSet(updating) :
        /\ PersistDeck(SelectedDeck, e)
        /\ userProgress' = Upsert(userProgress, SyncUserProgressPayload(decksTable'))
        /\ syncRuns' = 1
        /\ UNCHANGED << streakVars, updateVars >>
        /\ updating' = updating (-) SetToBag({e})
        /\ navigating' = navigating + 1
        /\ cards' = e
        /\ lastEvent' = "other"
        /\ IF Mounted
           THEN /\ Render(currentIndex, isFlipped, CardsToStudy(e), reviewQueue,
                          CardsMastered(e), autoFlipTimer, timers)
                /\ propsChanged' = TRUE
                /\ onlyKnown' = FALSE
                /\ knownSince' = {}
                /\ owed' = {}
           ELSE UNCHANGED << currentIndex, isFlipped, studyCards, reviewQueue,
                             completedCards, autoFlipTimer, cleanupTimer,
                             timers, propsChanged, onlyKnown, knownSince, owed >>
        /\ UNCHANGED << screen, stray, sessionEmits >>

\* handleUpdateDeck inside handleCompleteStudy: its first database call,
\* updateDeck, has failed and nothing is written.  The catch block leaves
\* the decks alone and handleCompleteStudy goes on to its last statement in
\* the same task.
HandleUpdateDeckFails ==
    \E e \in BagToSet(updating) :
        /\ UNCHANGED storeVars
        /\ updating' = updating (-) SetToBag({e})
        /\ ToDeckView
        /\ UNCHANGED << cards, navigating >>

\* The end of handleCompleteStudy after syncUserProgress has settled.
HandleCompleteStudyReturn ==
    /\ navigating > 0
    /\ UNCHANGED storeVars
    /\ navigating' = navigating - 1
    /\ ToDeckView
    /\ UNCHANGED << cards, updating >>

\* ---------------------------------------------------------------- StudyModeScreen
\* The main screen (card, Reveal / Review Again / I Know This, restart icon)
\* is rendered when studyCards is not empty; otherwise the "Study Session
\* Complete!" card with Back to Deck and Study Again.
MainScreen == Mounted /\ Len(studyCards) > 0

\* Variant of HandleCardFlipClear: the state is set to null without
\* clearTimeout.
HandleCardFlipNoClear == timers

\* handleCardFlip, lines 70-73: clearTimeout(autoFlipTimer)
HandleCardFlipClear ==
    IF autoFlipTimer # Null THEN ClearTimeout(timers, autoFlipTimer) ELSE timers

\* handleCardFlip: the card itself and the Reveal Answer button.
HandleCardFlip ==
    /\ MainScreen
    /\ Render(currentIndex, ~isFlipped, studyCards, reviewQueue, completedCards,
              Null, HandleCardFlipClear)
    /\ NoComplete
    /\ lastEvent' = IF ~isFlipped /\ timers # {} THEN "flip" ELSE "other"
    /\ UNCHANGED << screen, cards, navigating, stray, knownSince, owed,
                    onlyKnown, propsChanged >>
    /\ UNCHANGED storeVars

\* nextCard, called with the render's currentIndex, studyCards, reviewQueue
\* and completedCards; rq and cc are the values the caller's functional
\* updates leave in reviewQueue and completedCards, owedNow the cards owed a
\* showing after the caller's deferral.
NextCard(rq, cc, owedNow) ==
    IF currentIndex + 1 < Len(studyCards)
    THEN /\ Render(currentIndex + 1, FALSE, studyCards, rq, cc, autoFlipTimer, timers)
         /\ NoComplete
         /\ owed' = owedNow \ Shown(currentIndex + 1, studyCards)
    ELSE IF Len(reviewQueue) > 0
    THEN /\ Render(0, FALSE, reviewQueue, << >>, cc, autoFlipTimer, timers)
         /\ NoComplete
         /\ owed' = owedNow \ Shown(0, reviewQueue)
    ELSE /\ Render(currentIndex, FALSE, studyCards, rq, cc, autoFlipTimer, timers)
         /\ OnComplete(AllUpdatedCardsNext)
         /\ owed' = owedNow

\* handleKnown: the I Know This button, rendered when the card is flipped.
HandleKnown ==
    /\ MainScreen
    /\ isFlipped
    /\ IF ~HasCurrentCard
       THEN UNCHANGED << currentIndex, isFlipped, studyCards, reviewQueue,
                         completedCards, autoFlipTimer, cleanupTimer, timers,
                         updating, sessionEmits, owed, knownSince >>
       ELSE /\ knownSince' = knownSince \cup {CurrentCard.id}
            /\ IF currentIndex + 1 >= Len(studyCards) /\ Len(reviewQueue) = 0
               THEN /\ Render(currentIndex, FALSE, studyCards, reviewQueue,
                              Append(completedCards, UpdatedCard), autoFlipTimer, timers)
                    /\ OnComplete(AllUpdatedCardsKnown)
                    /\ owed' = owed
               ELSE NextCard(reviewQueue, Append(completedCards, UpdatedCard), owed)
    /\ lastEvent' = "other"
    /\ UNCHANGED << screen, cards, navigating, stray, onlyKnown, propsChanged >>
    /\ UNCHANGED storeVars

\* handleReview: the Review Again button, rendered when the card is flipped.
HandleReview ==
    /\ MainScreen
    /\ isFlipped
    /\ IF ~HasCurrentCard
       THEN UNCHANGED << currentIndex, isFlipped, studyCards, reviewQueue,
                         completedCards, autoFlipTimer, cleanupTimer, timers,
                         updating, sessionEmits, owed, onlyKnown >>
       ELSE /\ NextCard(Append(reviewQueue, CurrentCard), completedCards,
                        owed \cup {CurrentCard.id})
            /\ onlyKnown' = FALSE
    /\ lastEvent' = "other"
    /\ UNCHANGED << screen, cards, navigating, stray, knownSince, propsChanged >>
    /\ UNCHANGED storeVars

\* Variant of RestartState: setReviewQueue([]) is missing.
RestartStateKeepsQueue ==
    [currentIndex |-> 0, isFlipped |-> FALSE, studyCards |-> CardsToStudy(cards),
     reviewQueue |-> reviewQueue, completedCards |-> CardsMastered(cards)]

\* The five setters of handleRestart.
RestartState ==
    [currentIndex |-> 0, isFlipped |-> FALSE, studyCards |-> CardsToStudy(cards),
     reviewQueue |-> << >>, completedCards |-> CardsMastered(cards)]

\* handleRestart: the restart icon of the main screen and Study Again of the
\* complete card.
HandleRestart ==
    /\ Mounted
    /\ LET r == RestartState
       IN  Render(r.currentIndex, r.isFlipped, r.studyCards, r.reviewQueue,
                  r.completedCards, autoFlipTimer, timers)
    /\ NoComplete
    /\ knownSince' = {}
    /\ owed' = {}
    /\ onlyKnown' = FALSE
    /\ lastEvent' = IF currentIndex > 0 /\ Len(reviewQueue) > 0 /\ knownSince # {}
                    THEN "restart" ELSE "other"
    /\ UNCHANGED << screen, cards, navigating, stray, propsChanged >>
    /\ UNCHANGED storeVars

\* The setTimeout callback of the auto-flip effect: setIsFlipped(true).
AutoFlip ==
    /\ Mounted
    /\ \E x \in timers :
          Render(currentIndex, TRUE, studyCards, reviewQueue, completedCards,
                 autoFlipTimer, timers \ {x})
    /\ NoComplete
    /\ lastEvent' = "other"
    /\ UNCHANGED << screen, cards, navigating, stray, knownSince, owed,
                    onlyKnown, propsChanged >>
    /\ UNCHANGED storeVars

\* The callback of a timer whose screen is gone; other such timers may
\* remain.
StrayFire ==
    /\ stray
    /\ stray' \in BOOLEAN
    /\ lastEvent' = "other"
    /\ UNCHANGED << screen, cards, updating, navigating, currentIndex, isFlipped,
                    studyCards, reviewQueue, completedCards, autoFlipTimer,
                    cleanupTimer, timers, knownSince, owed, onlyKnown,
                    sessionEmits, propsChanged >>
    /\ UNCHANGED storeVars

\* ---------------------------------------------------------------- specification
\* The deck screen with no study session mounted and nothing in flight.
SessionIdle ==
    /\ screen = "deck-view"
    /\ updating = EmptyBag
    /\ navigating = 0
    /\ currentIndex = 0
    /\ isFlipped = FALSE
    /\ studyCards = << >>
    /\ reviewQueue = << >>
    /\ completedCards = << >>
    /\ autoFlipTimer = Null
    /\ cleanupTimer = Null
    /\ timers = {}
    /\ stray = FALSE
    /\ knownSince = {}
    /\ owed = {}
    /\ onlyKnown = TRUE
    /\ sessionEmits = FALSE
    /\ propsChanged = FALSE
    /\ lastEvent = "other"

NoStreakUpdate == [by |-> "none", case |-> "none"]

\* The selected deck is open with its cards; the deck was persisted with
\* these cards (by handleCreateDeck, or by handleUpdateDeck after an earlier
\* session of this run, which leaves the mastered flags in memory only) and
\* the totals are synced.
Init ==
    /\ SessionIdle
    /\ cards \in Decks
    /\ decksTable = [d \in {SelectedDeck} |-> [card_count |-> CardCount(cards),
                                                mastered_count |-> MasteredCount(cards)]]
    /\ cardsTable = [d \in {SelectedDeck} |-> AddCardsRows(cards)]
    /\ userProgress = Upsert(Absent, SyncUserProgressPayload(decksTable))
    /\ kvProgress = Absent
    /\ streakCase = NoStreakUpdate
    /\ syncRuns = 1
    /\ calls = [c \in Calls |-> IdleCall]
    /\ syncStatus = "idle"

Next ==
    \/ HandleStartStudy
    \/ OnBack
    \/ HandleCardFlip
    \/ HandleKnown
    \/ HandleReview
    \/ HandleRestart
    \/ AutoFlip
    \/ StrayFire
    \/ HandleUpdateDeck
    \/ HandleUpdateDeckFails
    \/ HandleCompleteStudyReturn

Spec == Init /\ [][Next]_vars

\* A new account: no deck, no progress row, no kv record.
InitStore ==
    /\ SessionIdle
    /\ cards = << >>
    /\ decksTable = [d \in {} |-> Null]
    /\ cardsTable = [d \in {} |-> Null]
    /\ userProgress = Absent
    /\ kvProgress = Absent
    /\ streakCase = NoStreakUpdate
    /\ syncRuns = 0
    /\ calls = [c \in Calls |-> IdleCall]
    /\ syncStatus = "idle"

\* The streak bookkeeping: study updates through operations.ts and through
\* the server route, at any instants.
NextStreak ==
    \/ UpdateStudyProgress
    \/ PostStudySession
    \/ GetUserProgress

SpecStreak == InitStore /\ [][NextStreak]_vars

\* The deck counters and the totals: decks are created, updated and deleted,
\* and syncUserProgress runs at any time.
NextStats ==
    \/ HandleCreateDeck
    \/ UpdateDeckInStore
    \/ HandleDeleteDeck
    \/ SyncUserProgress
    \/ GetUserProgress
    \/ StudyOnFirstDay

SpecStats == InitStore /\ [][NextStats]_vars

\* The deck view of a stored deck of up to MaxDeckCards cards.
InitUpdate ==
    /\ Init
    /\ cards \in StoredDecks

\* The user edits the deck on DeckViewScreen: handleUpdateDeck calls whose
\* awaited steps interleave; a database call answers or fails.
NextUpdate ==
    \/ StartUpdateDeck
    \/ UpdateDeckDone
    \/ DeleteCardsDone
    \/ DeleteCardsError
    \/ AddCardsDone
    \/ UpdateDeckStatsDone
    \/ SyncSelectDone
    \/ SyncUpsertDone
    \/ UpdateDeckThrows
    \/ HideSyncIndicator

SpecUpdate == InitUpdate /\ [][NextUpdate]_vars

\* The Reveal Answer button (or a tap on the unflipped card).
Reveal == HandleCardFlip /\ ~isFlipped

\* The study session of a user who answers card after card: no restart, no
\* Back, no flipping a revealed card back.
NextAnswering ==
    \/ HandleStartStudy
    \/ Reveal
    \/ HandleKnown
    \/ HandleReview
    \/ AutoFlip
    \/ StrayFire
    \/ HandleUpdateDeck
    \/ HandleUpdateDeckFails
    \/ HandleCompleteStudyReturn

\* The user keeps answering: whenever a card can be revealed or answered,
\* that happens at some time.
SpecAnswering ==
    Init /\ [][NextAnswering]_vars /\ WF_vars(Reveal \/ HandleKnown \/ HandleReview)

TypeOK ==
    /\ screen \in {"deck-view", "study-mode"}
    /\ cards \in Decks
    /\ currentIndex \in 0..MaxCards
    /\ isFlipped \in BOOLEAN
    /\ BagCardinality(updating) + navigating <= MaxInFlight
    /\ Cardinality(timers) <= 1
    /\ lastEvent \in {"start", "restart", "flip", "back", "other"}
    /\ DOMAIN decksTable \subseteq DeckIds
    /\ DOMAIN cardsTable = DOMAIN decksTable
    /\ userProgress = Absent \/ DOMAIN userProgress = DOMAIN ProgressDefaults
    /\ kvProgress = Absent \/ DOMAIN kvProgress = DOMAIN ProgressDefaults
    /\ syncRuns \in 0..2
    /\ DOMAIN calls = Calls
    /\ \A c \in Calls :
          calls[c].pc \in {"idle", "updateDeck", "deleteCards", "addCards",
                           "updateDeckStats", "syncSelect", "syncUpsert", "done", "failed"}
    /\ syncStatus \in {"idle", "syncing", "success", "error"}

\* ---------------------------------------------------------------- properties
\* The cards of the current pass that have not been evaluated yet.
RestOfPass == SubSeq(studyCards, currentIndex + 1, Len(studyCards))

Occurrences(s, id) == Cardinality({ i \in 1..Len(s) : s[i].id = id })

\* The step calls onComplete with the list e.
CallsOnCompleteWith(e) == updating' = updating (+) SetToBag({e})

\* The step calls onComplete.
CallsOnComplete ==
    \E e \in BagToSet(updating') : CallsOnCompleteWith(e)

\* A session of this screen that has not called onComplete and still has the
\* cards it was mounted with.
ActiveSession == Mounted /\ ~sessionEmits /\ ~propsChanged

\* s holds exactly the cards of cs whose mastered flag is m, in the order of cs.
IsFilterOf(s, cs, m) ==
    /\ \A i \in 1..Len(s) : \E k \in 1..Len(cs) : cs[k] = s[i]
    /\ \A k \in 1..Len(cs) : (cs[k].mastered = m) <=> (\E i \in 1..Len(s) : s[i] = cs[k])
    /\ \A i, j \in 1..Len(s) :
          i < j => \E k, l \in 1..Len(cs) : k < l /\ cs[k] = s[i] /\ cs[l] = s[j]

\* The queue state of a session that has just been started on cs.
IsStartState(cs, ci, fl, sc, rq, cc) ==
    /\ IsFilterOf(sc, cs, FALSE)
    /\ IsFilterOf(cc, cs, TRUE)
    /\ rq = << >>
    /\ ci = 0
    /\ fl = FALSE

\* C1: every card deferred by handleReview is shown as the current card again
\* before onComplete is called: at each onComplete call no deferred card is
\* still owed a showing.
C1_DeferredCardShownAgain == [][ CallsOnComplete => owed' = {} ]_vars

\* C2: while a session is active every card of the deck is in exactly one of
\* the rest of the current pass, reviewQueue and completedCards.
C2_CardInExactlyOnePlace ==
    ActiveSession =>
        \A k \in 1..Len(cards) :
            Occurrences(RestOfPass, cards[k].id) + Occurrences(reviewQueue, cards[k].id)
                + Occurrences(completedCards, cards[k].id) = 1

\* C3: handleReview on the last card of a pass does not complete the session;
\* it starts a new pass over all the cards deferred in the finished pass,
\* the card just deferred included.
C3_ReviewOnLastCardStartsReviewPass ==
    [][ (HandleReview /\ HasCurrentCard /\ currentIndex + 1 = Len(studyCards))
        => /\ ~CallsOnComplete
           /\ studyCards' = Append(reviewQueue, CurrentCard)
           /\ reviewQueue' = << >>
           /\ currentIndex' = 0
           /\ isFlipped' = FALSE ]_vars

\* C4: in a session in which only handleKnown is used to answer, handleKnown
\* calls onComplete exactly when it leaves no card of the deck unmarked and
\* unmastered; the emitted list is the deck with every card mastered, and
\* reviewQueue is empty.
C4_KnownOnlyRunCompletes ==
    [][ (HandleKnown /\ HasCurrentCard /\ onlyKnown /\ ~sessionEmits)
        => /\ CallsOnComplete
                <=> (\A k \in 1..Len(cards) :
                        cards[k].mastered \/ cards[k].id \in knownSince')
           /\ \A e \in BagToSet(updating') :
                CallsOnCompleteWith(e) =>
                    /\ Len(e) = Len(cards)
                    /\ \A k \in 1..Len(cards) : e[k].id = cards[k].id /\ e[k].mastered
                    /\ reviewQueue' = << >> ]_vars

C4_Witness ==
    /\ Mounted
    /\ onlyKnown
    /\ sessionEmits
    /\ Cardinality(knownSince) >= 2
    /\ \E k \in 1..Len(cards) : cards[k].mastered
    /\ \E e \in BagToSet(updating) : \A k \in 1..Len(e) : e[k].mastered

C6_StartFiltersMastered ==
    [][ HandleStartStudy
        => IsStartState(cards, currentIndex', isFlipped', studyCards',
                        reviewQueue', completedCards') ]_vars

C6_Witness ==
    /\ lastEvent = "start"
    /\ Len(studyCards) >= 2
    /\ Len(completedCards) >= 1

C8_NothingToStudy ==
    (Mounted /\ ~propsChanged /\ \A k \in 1..Len(cards) : cards[k].mastered)
        => /\ ~HasCurrentCard
           /\ ~ENABLED HandleKnown
           /\ ~ENABLED HandleReview
           /\ timers = {}
           /\ autoFlipTimer = Null
           /\ AllUpdatedCardsNext = cards
           /\ ~sessionEmits

C8_Witness ==
    /\ lastEvent = "start"
    /\ Len(cards) >= 2
    /\ \A k \in 1..Len(cards) : cards[k].mastered

\* C9: a manual flip of an unflipped card whose auto-flip timer is pending
\* cancels the timer, and no timer is pending while a card is flipped.
C9_ManualFlipCancelsTimer ==
    /\ [][ (HandleCardFlip /\ ~isFlipped /\ timers # {}) => timers' = {} ]_vars
    /\ [](Mounted /\ isFlipped => timers = {})

C9_Witness ==
    /\ lastEvent = "flip"
    /\ isFlipped
    /\ timers = {}

\* C10: unmounting the screen cancels the pending auto-flip timer: no timer
\* of an unmounted screen is pending.
C10_UnmountCancelsTimer == ~stray
\* ---------------------------------------------------------------- streak properties
\* The progress record as a reader gets it: zeros and no date when nothing
\* is stored.
Stored(p) == IF p = Absent THEN ProgressDefaults ELSE p

Max(a, b) == IF a > b THEN a ELSE b

\* The streak the four rules give for a study at now on top of the record p.
RuleStreak(p, now) ==
    LET c == StreakCaseOf(p, now)
    IN  IF c = "same" THEN Stored(p).current_streak
        ELSE IF c = "next" THEN Stored(p).current_streak + 1
        ELSE 1

\* C11: starting from a new progress record, after every sequence of study
\* updates current_streak <= longest_streak, and each update leaves
\* longest_streak at the larger of its earlier value and the new
\* current_streak; for updateStudyProgress and for the server route.
C11_StreakWithinLongest ==
    /\ [](/\ Stored(userProgress).current_streak <= Stored(userProgress).longest_streak
          /\ Stored(kvProgress).current_streak <= Stored(kvProgress).longest_streak)
    /\ [][ UpdateStudyProgress
            => userProgress'.longest_streak
                 = Max(Stored(userProgress).longest_streak, userProgress'.current_streak) ]_vars
    /\ [][ PostStudySession
            => kvProgress'.longest_streak
                 = Max(Stored(kvProgress).longest_streak, kvProgress'.current_streak) ]_vars

HasStudied ==
    \/ Stored(userProgress).last_study_date # Null
    \/ Stored(kvProgress).last_study_date # Null

\* C14: when handleCompleteStudy has handled a completed session, a streak
\* update of the user's progress has been made; handleKnown and handleReview
\* on a card make none.
C14_SessionUpdatesStreak ==
    /\ [][ HandleCompleteStudyReturn => HasStudied' ]_vars
    /\ [][ (HandleKnown \/ HandleReview)
            => /\ Stored(userProgress').last_study_date = Stored(userProgress).last_study_date
               /\ kvProgress' = kvProgress ]_vars

\* The sum of a counter over the stored decks, by counting.
DeckSum(col) ==
    Cardinality({ p \in DeckIds \X (1..(MaxCards + MaxDeckCards)) :
                    /\ p[1] \in DOMAIN decksTable
                    /\ p[2] <= decksTable[p[1]][col] })

\* The totals of the progress row are the sums over the stored decks.
TotalsAreSums ==
    /\ userProgress # Absent
    /\ userProgress.total_cards = DeckSum("card_count")
    /\ userProgress.mastered_cards = DeckSum("mastered_count")

C17_MasteredWithinCards ==
    /\ \A d \in DOMAIN decksTable :
          decksTable[d].mastered_count <= decksTable[d].card_count
    /\ syncRuns >= 1 => userProgress.mastered_cards <= userProgress.total_cards

C17_Witness ==
    /\ syncRuns >= 1
    /\ \E d, x \in DOMAIN decksTable :
          /\ decksTable[d].mastered_count = decksTable[d].card_count
          /\ decksTable[d].card_count > 0
          /\ decksTable[x].mastered_count < decksTable[x].card_count
    /\ userProgress.mastered_cards >= 1
    /\ userProgress.mastered_cards < userProgress.total_cards

\* C18: when a completed session has been persisted, re-opening the deck
\* gives mastered = true for every card mastered in the emitted list, and
\* the deck's mastered_count is the number of its stored cards with
\* mastered = true.
C18_MasteredFlagPersists ==
    [][ HandleUpdateDeck
        => LET opened == OpenedCards(cardsTable'[SelectedDeck])
           IN  /\ Len(opened) = Len(cards')
               /\ \A k \in 1..Len(opened) : cards'[k].mastered => opened[k].mastered
               /\ decksTable'[SelectedDeck].mastered_count = MasteredCount(opened) ]_vars
\* ---------------------------------------------------------------- timer properties
\* C19: when a start, I Know This, Review Again or a restart leaves a
\* current card with isFlipped = false, an auto-flip timer is pending for
\* that card (the timer is what flips the card of a user who does nothing).
C19_TimerArmedForCurrentCard ==
    [][ ((HandleStartStudy \/ HandleKnown \/ HandleReview \/ HandleRestart)
            /\ Mounted' /\ HasCurrentCard' /\ ~isFlipped')
        => \E x \in timers' : x.card = CurrentCard'.id ]_vars

\* C20: at every moment of a session at most one auto-flip timer of the
\* screen is pending.
C20_AtMostOneTimer == Cardinality(timers) <= 1

C20_Witness ==
    /\ Mounted
    /\ Cardinality(timers) = 1
    /\ currentIndex >= 1
    /\ knownSince # {}
    /\ Len(reviewQueue) > 0
    /\ ~isFlipped

\* C21: in a session that has not called onComplete, an auto-flip timer
\* fires only while the card it was armed for is the current card and is
\* not flipped: every change of the current card before that (pass advance,
\* review pass, restart) has cancelled it, and so has a manual flip.
C21_TimerFiresForItsCard ==
    [][ (AutoFlip /\ ActiveSession)
        => /\ HasCurrentCard
           /\ ~isFlipped
           /\ \A x \in timers : x.card = CurrentCard.id ]_vars

\* ---------------------------------------------------------------- completion properties
\* C22: once the mounted screen has called onComplete, no flip, I Know This
\* or Review Again changes completedCards or reviewQueue, and the screen
\* calls onComplete at most once, so at most one handleUpdateDeck is in
\* flight for the session.
C22_NoInteractionAfterComplete ==
    /\ [][ (sessionEmits /\ (HandleCardFlip \/ HandleKnown \/ HandleReview))
            => UNCHANGED << completedCards, reviewQueue >> ]_vars
    /\ [][ CallsOnComplete => ~sessionEmits ]_vars

\* C23: syncUserProgress on an existing progress row leaves current_streak,
\* longest_streak and last_study_date as they were.
C23_SyncKeepsStreak ==
    [][ (SyncUserProgress /\ userProgress # Absent)
        => /\ userProgress'.current_streak = userProgress.current_streak
           /\ userProgress'.longest_streak = userProgress.longest_streak
           /\ userProgress'.last_study_date = userProgress.last_study_date ]_vars

C23_Witness ==
    /\ syncRuns >= 1
    /\ userProgress # Absent
    /\ userProgress.last_study_date # Null
    /\ userProgress.current_streak = 1
    /\ userProgress.total_cards >= 1
    /\ userProgress.total_cards = DeckSum("card_count")

\* ---------------------------------------------------------------- queue properties
\* C24: while the screen is mounted with studyCards not empty, currentIndex
\* is an index of studyCards, so that the current card is defined.
C24_CurrentIndexInRange ==
    (Mounted /\ Len(studyCards) > 0) => (0 <= currentIndex /\ currentIndex < Len(studyCards))

\* The step ends a pass and starts a review pass: the answered card is the
\* last of its pass and cards are waiting in reviewQueue.
StartsReviewPass ==
    /\ HandleKnown \/ HandleReview
    /\ HasCurrentCard
    /\ currentIndex + 1 >= Len(studyCards)
    /\ Len(reviewQueue) > 0

\* The cards of s are cards of q, in the order they have in q.
InOrderOf(s, q) ==
    \A i, j \in 1..Len(s) :
        i < j => \E k, l \in 1..Len(q) : k < l /\ q[k].id = s[i].id /\ q[l].id = s[j].id

\* C25: the cards of a review pass are in the order in which handleReview
\* deferred them (the order of reviewQueue, to which handleReview appends);
\* the pass holds no card twice and no card that handleKnown was called on
\* since the last (re)start.
C25_ReviewPassOrder ==
    [][ StartsReviewPass
        => /\ InOrderOf(studyCards', reviewQueue)
           /\ \A i, j \in 1..Len(studyCards') :
                 i # j => studyCards'[i].id # studyCards'[j].id
           /\ \A i \in 1..Len(studyCards') : studyCards'[i].id \notin knownSince' ]_vars

\* C26: a session in which the user keeps answering the current card calls
\* onComplete at some time; a review pass is no longer than the pass before
\* it; and while the screen stays mounted and is not restarted the number
\* of cards in completedCards does not decrease.
C26_SessionCompletes ==
    /\ (Mounted /\ ~sessionEmits /\ HasCurrentCard) ~> sessionEmits
    /\ [][ StartsReviewPass => Len(studyCards') <= Len(studyCards) ]_vars
    /\ [][ (Mounted /\ Mounted') => Len(completedCards') >= Len(completedCards) ]_vars

\* ---------------------------------------------------------------- persistence properties
\* C27: the steps of a session that has not called onComplete, and the Back
\* button that abandons it, write nothing: the stored cards, the stored deck
\* counters, the progress record and the deck list of the app stay as they
\* are, and no persistence is started.
C27_AbandonPersistsNothing ==
    [][ ((HandleCardFlip \/ HandleKnown \/ HandleReview \/ HandleRestart
            \/ AutoFlip \/ OnBack)
         /\ ~sessionEmits /\ ~CallsOnComplete)
        => UNCHANGED << storeVars, cards, updating, navigating >> ]_vars

C27_Witness ==
    /\ lastEvent = "back"
    /\ screen = "deck-view"
    /\ updating = EmptyBag
    /\ navigating = 0
    /\ \A k \in 1..Len(cards) : ~cards[k].mastered
    /\ decksTable[SelectedDeck] = [card_count |-> Len(cards), mastered_count |-> 0]
    /\ Len(cardsTable[SelectedDeck]) = Len(cards)
    /\ userProgress.mastered_cards = 0

\* ---------------------------------------------------------------- equivalence of the streak updates
\* The record updateStudyProgress leaves for a study at now on top of p.
ClientRecord(p, now) == Upsert(p, UpdateStudyProgressPayload(p, now, 0))

\* C28: on every progress record (none, one without last_study_date, one
\* written by either implementation) and for every study instant,
\* updateStudyProgress and the server route give the same current_streak
\* and the same longest_streak.
C28_StreakUpdatesAgree ==
    \A p \in {userProgress, kvProgress}, now \in Instants :
        /\ ClientRecord(p, now).current_streak = StudySessionRecord(p, now).current_streak
        /\ ClientRecord(p, now).longest_streak = StudySessionRecord(p, now).longest_streak

\* No other handleUpdateDeck call has been made.
Alone(c) == \A o \in Calls \ {c} : calls[o].pc = "idle"

Ended(c) == calls[c].pc \in {"done", "failed"}

\* C29: when a handleUpdateDeck call has ended and one of its database calls
\* had failed, syncStatus is "error" and the stored card rows and counters
\* of the deck are those from before the call; when it has ended with every
\* database call successful, card_count is the number of stored card rows,
\* also for an empty card list.  For a call that runs alone.
C29_UpdateAllOrNothing ==
    \A c \in Calls :
        (Alone(c) /\ Ended(c))
            => /\ calls[c].errors
                    => /\ syncStatus = "error"
                       /\ cardsTable[SelectedDeck] = calls[c].rowsBefore
                       /\ decksTable[SelectedDeck] = calls[c].countersBefore
               /\ ~calls[c].errors
                    => decksTable[SelectedDeck].card_count = Len(cardsTable[SelectedDeck])

\* C30: when the handleUpdateDeck calls on the deck have all ended, whatever
\* the order of their awaited steps, the stored card rows are the card list
\* of one of the calls and card_count and mastered_count are the counts of
\* that list.  For calls with cards whose database calls all succeeded.
C30_ConcurrentUpdatesSerialize ==
    (\A c \in Calls : calls[c].pc = "done" /\ ~calls[c].errors /\ Len(calls[c].cards) > 0)
        => \E c \in Calls :
              /\ cardsTable[SelectedDeck] = AddCardsRows(calls[c].cards)
              /\ decksTable[SelectedDeck] = [card_count |-> CardCount(calls[c].cards),
                                             mastered_count |-> MasteredCount(calls[c].cards)]
====
